---- MODULE Spec2Model ----
(***************************************************************************)
(* Model of the RBAC authorization core of abcd-1.1.0:                     *)
(*   - the permission resolver (hasPermission, hasAnyPermission,           *)
(*     hasAllPermissions) and the scope evaluator (checkScopeAccess) of    *)
(*     Backend/src/utils/permissionUtils.js, lines 1-219;                  *)
(*   - the authorization middleware (checkPermission, checkAllPermissions, *)
(*     checkScopePermission) of the same file, lines 221-399.              *)
(*   - the seeding of the Permission and AtomicRole collections            *)
(*     (rbac.seed.js), role deletion and renaming, and the permission      *)
(*     lists of the roles (AtomicRole methods);                            *)
(*   - the session of the frontend: AuthProvider and the response          *)
(*     interceptor of services/api.js.                                     *)
(* The functions are stateless, so the state of the model is the call in   *)
(* progress: its arguments, and what it returned or sent.                  *)
(***************************************************************************)
EXTENDS Integers, Sequences, FiniteSets

VARIABLES
  call,   \* the function called last and its arguments; fn = "idle" between calls
  ret,    \* what a resolver or scope call completed with
  mw,     \* the middleware a request is in: its name and configuration
  req,    \* the request: principal, target fields, what the middleware attached
  res,    \* the response: whether one was sent, its status code and message
  nextCalled,  \* whether the middleware forwarded the request with next()
  steps,  \* the evaluations the middleware made, in order
  audit,  \* the audit hook: installed on the route, forwarded, what it logged
  Permission,  \* the Permission collection: its documents, in insertion order
  AtomicRole,  \* the AtomicRole collection
  seeder,      \* the calls of seedRBAC(): where each is, and what it read last
  roleOp,      \* the role mutation attempted last, its error, the roles before it
  principal,   \* a user document: its role, and the permissions copied onto it
  storage,     \* the browser's localStorage and sessionStorage entries
  auth,        \* the state of the AuthProvider component
  task,        \* the asynchronous calls of the AuthProvider that are in flight
  last         \* the step of the AuthProvider that ran last, and what it started from

(***************************************************************************)
(* JavaScript values.  Every value is a record of one shape, so that a     *)
(* string, an ObjectId, an array and undefined can meet in one comparison. *)
(***************************************************************************)
Undefined == [t |-> "undefined", s |-> "", items |-> << >>]

Str(x) == [t |-> "string", s |-> x, items |-> << >>]

ObjectId(hex) == [t |-> "ObjectId", s |-> hex, items |-> << >>]

Arr(xs) == [t |-> "array", s |-> "", items |-> xs]

\* Array.isArray(v)
IsArray(v) == v.t = "array"

\* the truthiness of v: undefined and "" are falsy, objects and arrays truthy
Truthy(v) == ~(v.t = "undefined" \/ (v.t = "string" /\ v.s = ""))

\* a || b || c
FirstTruthy(a, b, c) == IF Truthy(a) THEN a ELSE IF Truthy(b) THEN b ELSE c

RECURSIVE Join(_, _)
\* Array.prototype.join(sep): the elements' strings with sep between them
Join(xs, sep) ==
  IF Len(xs) = 0 THEN ""
  ELSE IF Len(xs) = 1 THEN Head(xs).s
  ELSE Head(xs).s \o sep \o Join(Tail(xs), sep)

\* v.toString(): a string is itself, an ObjectId its hex string, an array its
\* elements joined by commas
toString(v) == IF IsArray(v) THEN Join(v.items, ",") ELSE v.s

\* arr.includes(v), strict equality of the elements
Includes(arr, v) == \E i \in DOMAIN arr.items : arr.items[i] = v

\* arr.map((id) => id.toString())
MapToString(arr) == Arr([i \in DOMAIN arr.items |-> Str(toString(arr.items[i]))])

\* what a call completes with: a returned boolean, or a thrown TypeError
Normal(v) == [type |-> "normal", value |-> v]

Throw == [type |-> "throw", value |-> FALSE]

NoResult == [type |-> "none", value |-> FALSE]

(***************************************************************************)
(* Bounds and input domains.                                               *)
(***************************************************************************)
MaxPerms == 2

MaxKeys == 2

MaxUserPerms == 1

MaxBranches == 2

MaxEnterprises == 2

\* the permission catalog seeded by rbac.seed.js (two of its keys)
Catalog == {"user:read", "user:create"}

\* keys that occur in permission sets and queries: the wildcard, catalog
\* keys, and a key that is in no catalog
Keys == {"*"} \cup Catalog \cup {"ghost:fly"}

SeqsUpTo(S, n) == UNION {[1..m -> S] : m \in 0..n}

StrKeys == {Str(k) : k \in Keys}

\* permission arrays: duplicates and any order are possible in an array
PermArrays == {Arr(xs) : xs \in SeqsUpTo(StrKeys, MaxPerms)}

\* what a caller may pass as userPermissions: an array, nothing, or a string
PermInputs == PermArrays \cup {Undefined, Str("user:read")}

\* a catalog key in another letter case, as a route or a role may spell it
MixedCaseKey == Str("User:Read")

\* String.prototype.toLowerCase on the keys of the model
toLowerCase(s) == IF s = "User:Read" THEN "user:read" ELSE s

KeyLists == {Arr(xs) : xs \in SeqsUpTo(StrKeys, MaxKeys)}

\* what a caller may pass as requiredPermissions
KeyListInputs == KeyLists \cup {Undefined}

Null == [t |-> "null", s |-> "", items |-> << >>]

\* the branches and enterprises principals are assigned to (user documents
\* hold ObjectIds)
BranchIds == {ObjectId("b1"), ObjectId("b2")}

EnterpriseIds == {ObjectId("e1"), ObjectId("e2")}

\* user.permissions: the denormalized [String], or not populated
UserPermValues == {Arr(xs) : xs \in SeqsUpTo(StrKeys, MaxUserPerms)} \cup {Undefined}

\* user.branchId: [ObjectId], or not set
UserBranchValues == {Arr(xs) : xs \in SeqsUpTo(BranchIds, MaxBranches)} \cup {Undefined}

\* user.organizationId: one ObjectId, an array of them, or not set
UserOrgValues ==
  {Arr(xs) : xs \in SeqsUpTo(EnterpriseIds, MaxEnterprises)} \cup EnterpriseIds
    \cup {Undefined}

Users ==
  [t : {"object"}, permissions : UserPermValues, branchId : UserBranchValues,
   organizationId : UserOrgValues]

\* the branch of a resource: absent, a string of the request, or an ObjectId
\* of a stored document; b3 is assigned to nobody
ResourceBranchValues == {Undefined, Str("b1"), Str("b2"), Str("b3"), ObjectId("b1")}

ResourceEnterpriseValues ==
  {Undefined, Str("e1"), Str("e2"), Str("e3"), Str("e1,e2"), ObjectId("e1")}

\* principals of the routes that check permissions only: permissions of up
\* to MaxPerms keys, no scope assigned
PermissionUsers ==
  [t : {"object"}, permissions : PermArrays \cup {Undefined},
   branchId : {Undefined}, organizationId : {Undefined}]

\* a key list of two export permissions of the seeded catalog, and a
\* principal that holds the first of them only
ExportKeys == Arr(<<Str("report:export"), Str("audit:export")>>)

ReportExporter ==
  [t |-> "object", permissions |-> Arr(<<Str("report:export")>>),
   branchId |-> Undefined, organizationId |-> Undefined]

\* the principals and key lists that reach the unscoped gates
GateUsers == PermissionUsers \cup {Undefined, ReportExporter}

GateKeyLists == KeyLists \cup {ExportKeys}

\* req.body, req.params and req.query carry the scope fields of the target
\* resource; a field that is absent reads as undefined
Bodies == [branchId : {Undefined, Str("b1"), Str("b3")},
           organizationId : {Undefined, Str("e1")}]

Params == [branchId : {Undefined, Str("b2")}, organizationId : {Undefined}]

Queries == [branchId : {Undefined}, organizationId : {Undefined, Str("e3")}]

NoFields == [branchId |-> Undefined, organizationId |-> Undefined]

\* a request as the middleware receives it: req.user is set by the
\* authentication middleware, or absent
Request(u, body, params, query) ==
  [user |-> u, body |-> body, params |-> params, query |-> query,
   checkedPermission |-> Undefined, resourceBranchId |-> Undefined,
   resourceEnterpriseId |-> Undefined]

\* the response before anything is sent
NoResponse == [sent |-> FALSE, statusCode |-> 200, message |-> ""]

\* res.status(code).json({success: false, statusCode: code, message})
Json(code, message) == [sent |-> TRUE, statusCode |-> code, message |-> message]

\* const { branchField = "branchId", enterpriseField = "organizationId" }
DefaultOptions == [branchField |-> "branchId", enterpriseField |-> "organizationId"]

(***************************************************************************)
(* Permission resolver, permissionUtils.js:17-65.                          *)
(***************************************************************************)
\* the keys of one resource, "user:read" and "user:create"
sameResource(p, k) == p.s \in {"user:read", "user:create"} /\ k.s \in {"user:read", "user:create"}

\* hasPermission without the wildcard rule of line 23
hasPermission_noWildcard(userPermissions, requiredPermission) ==
  IF ~Truthy(userPermissions) \/ ~IsArray(userPermissions) THEN FALSE
  ELSE Includes(userPermissions, requiredPermission)

\* hasPermission matching on the resource of the key instead of the whole key
hasPermission_byResource(userPermissions, requiredPermission) ==
  IF ~Truthy(userPermissions) \/ ~IsArray(userPermissions) THEN FALSE
  ELSE IF Includes(userPermissions, Str("*")) THEN TRUE
  ELSE \E i \in DOMAIN userPermissions.items :
         \/ userPermissions.items[i] = requiredPermission
         \/ sameResource(userPermissions.items[i], requiredPermission)

\* hasPermission looking at the last element of the array only
hasPermission_lastOnly(userPermissions, requiredPermission) ==
  IF ~Truthy(userPermissions) \/ ~IsArray(userPermissions) THEN FALSE
  ELSE /\ Len(userPermissions.items) > 0
       /\ userPermissions.items[Len(userPermissions.items)]
            \in {Str("*"), requiredPermission}

hasPermission(userPermissions, requiredPermission) ==
  IF ~Truthy(userPermissions) \/ ~IsArray(userPermissions) THEN FALSE
  ELSE IF Includes(userPermissions, Str("*")) THEN TRUE
  ELSE Includes(userPermissions, requiredPermission)

\* hasAnyPermission looking at the first required key only
hasAnyPermission_firstOnly(userPermissions, requiredPermissions) ==
  IF ~Truthy(userPermissions) \/ ~IsArray(userPermissions) THEN Normal(FALSE)
  ELSE IF Includes(userPermissions, Str("*")) THEN Normal(TRUE)
  ELSE IF ~IsArray(requiredPermissions) THEN Throw
  ELSE Normal(/\ Len(requiredPermissions.items) > 0
              /\ Includes(userPermissions, requiredPermissions.items[1]))

hasAnyPermission(userPermissions, requiredPermissions) ==
  IF ~Truthy(userPermissions) \/ ~IsArray(userPermissions) THEN Normal(FALSE)
  ELSE IF Includes(userPermissions, Str("*")) THEN Normal(TRUE)
  ELSE IF ~IsArray(requiredPermissions) THEN Throw
  ELSE Normal(\E i \in DOMAIN requiredPermissions.items :
                Includes(userPermissions, requiredPermissions.items[i]))

\* hasAllPermissions with some() where every() belongs
hasAllPermissions_some(userPermissions, requiredPermissions) ==
  IF ~Truthy(userPermissions) \/ ~IsArray(userPermissions) THEN Normal(FALSE)
  ELSE IF Includes(userPermissions, Str("*")) THEN Normal(TRUE)
  ELSE IF ~IsArray(requiredPermissions) THEN Throw
  ELSE Normal(\E i \in DOMAIN requiredPermissions.items :
                Includes(userPermissions, requiredPermissions.items[i]))

hasAllPermissions(userPermissions, requiredPermissions) ==
  IF ~Truthy(userPermissions) \/ ~IsArray(userPermissions) THEN Normal(FALSE)
  ELSE IF Includes(userPermissions, Str("*")) THEN Normal(TRUE)
  ELSE IF ~IsArray(requiredPermissions) THEN Throw
  ELSE Normal(\A i \in DOMAIN requiredPermissions.items :
                Includes(userPermissions, requiredPermissions.items[i]))

(***************************************************************************)
(* Scope evaluator, permissionUtils.js:104-177.                            *)
(***************************************************************************)
\* user.permissions?.includes("*")
userHasWildcard(user) ==
  IsArray(user.permissions) /\ Includes(user.permissions, Str("*"))

\* const userEnterpriseIds, lines 114-118: an array is turned into ONE string
userEnterpriseIds(user) ==
  IF IsArray(user.organizationId) THEN Arr(<<Str(toString(user.organizationId))>>)
  ELSE IF Truthy(user.organizationId)
    THEN Arr(<<Str(toString(user.organizationId))>>)
  ELSE Arr(<< >>)

\* userBranchIds without the map to strings
userBranchIds_raw(user) ==
  IF Truthy(user.branchId) THEN user.branchId ELSE Arr(<< >>)

\* const userBranchIds, line 129
userBranchIds(user) ==
  MapToString(IF Truthy(user.branchId) THEN user.branchId ELSE Arr(<< >>))

\* lines 113-125: FALSE when the enterprise check returns false
enterpriseCheckPasses(user, resourceEnterpriseId) ==
  IF Truthy(resourceEnterpriseId)
    THEN ~(/\ Len(userEnterpriseIds(user).items) > 0
           /\ ~Includes(userEnterpriseIds(user), Str(toString(resourceEnterpriseId))))
  ELSE TRUE

\* the branch check without the guard of line 128
branchCheckPasses_noSkip(user, resourceBranchId) ==
  ~(/\ Len(userBranchIds(user).items) > 0
    /\ ~Includes(userBranchIds(user), Str(toString(resourceBranchId))))

\* lines 128-136: FALSE when the branch check returns false
branchCheckPasses(user, resourceBranchId) ==
  IF Truthy(resourceBranchId)
    THEN ~(/\ Len(userBranchIds(user).items) > 0
           /\ ~Includes(userBranchIds(user), Str(toString(resourceBranchId))))
  ELSE TRUE

\* checkScopeAccess without the wildcard rule of lines 107-110
checkScopeAccess_noWildcard(user, resourceBranchId, resourceEnterpriseId) ==
  IF user.t = "null" THEN FALSE
  ELSE IF ~enterpriseCheckPasses(user, resourceEnterpriseId) THEN FALSE
  ELSE IF ~branchCheckPasses(user, resourceBranchId) THEN FALSE
  ELSE TRUE

checkScopeAccess(user, resourceBranchId, resourceEnterpriseId) ==
  IF user.t = "null" THEN FALSE
  ELSE IF userHasWildcard(user) THEN TRUE
  ELSE IF ~enterpriseCheckPasses(user, resourceEnterpriseId) THEN FALSE
  ELSE IF ~branchCheckPasses(user, resourceBranchId) THEN FALSE
  ELSE TRUE

getUserAccessibleBranches(user) ==
  IF user.t = "null" THEN Arr(<< >>)
  ELSE IF userHasWildcard(user) THEN Arr(<<Str("*")>>)
  ELSE MapToString(IF Truthy(user.branchId) THEN user.branchId ELSE Arr(<< >>))

getUserAccessibleEnterprises(user) ==
  IF user.t = "null" THEN Arr(<< >>)
  ELSE IF userHasWildcard(user) THEN Arr(<<Str("*")>>)
  ELSE MapToString(
         IF IsArray(user.organizationId) THEN user.organizationId
         ELSE IF Truthy(user.organizationId) THEN Arr(<<user.organizationId>>)
         ELSE Arr(<< >>))

(***************************************************************************)
(* Authorization middleware, permissionUtils.js:235-399.  A handler is an  *)
(* operator from the request to what it leaves behind: the request with    *)
(* the fields it attached, the response it sent, whether it called next(), *)
(* and the evaluations it made, in order.                                  *)
(***************************************************************************)
Outcome(request, response, calledNext, evaluated) ==
  [req |-> request, res |-> response, next |-> calledNext, steps |-> evaluated]

\* the permissions read from the role the user document refers to, as the
\* role is now, in place of the array on the user
permissionsOf_liveRole(user) ==
  LET docs == SelectSeq(AtomicRole, LAMBDA role : role.name = principal.atomicRole)
  IN  IF docs = << >> THEN Arr(<< >>)
      ELSE Arr([n \in DOMAIN docs[1].permissions |-> Str(docs[1].permissions[n])])

\* req.user.permissions || []
permissionsOf(user) ==
  IF Truthy(user.permissions) THEN user.permissions ELSE Arr(<< >>)

\* checkPermission with the return of line 268 missing: the 403 is sent and
\* the request is forwarded all the same
checkPermission_noReturn(requiredPermissions, r) ==
  IF ~Truthy(r.user)
    THEN Outcome(r, Json(401, "Authentication required"), FALSE, <<"principal">>)
  ELSE IF IsArray(requiredPermissions)
    THEN IF ~(\E i \in DOMAIN requiredPermissions.items :
                hasPermission(permissionsOf(r.user), requiredPermissions.items[i]))
           THEN Outcome(r,
                  Json(403, "Insufficient permissions. Required: "
                              \o Join(requiredPermissions.items, " | ")),
                  FALSE, <<"principal", "permission">>)
         ELSE Outcome([r EXCEPT !.checkedPermission = requiredPermissions],
                NoResponse, TRUE, <<"principal", "permission">>)
  ELSE IF ~hasPermission(permissionsOf(r.user), requiredPermissions)
    THEN Outcome([r EXCEPT !.checkedPermission = requiredPermissions],
           Json(403, "Permission '" \o requiredPermissions.s \o "' required"),
           TRUE, <<"principal", "permission">>)
  ELSE Outcome([r EXCEPT !.checkedPermission = requiredPermissions],
         NoResponse, TRUE, <<"principal", "permission">>)

checkPermission(requiredPermissions, r) ==
  IF ~Truthy(r.user)
    THEN Outcome(r, Json(401, "Authentication required"), FALSE, <<"principal">>)
  ELSE IF IsArray(requiredPermissions)
    THEN IF ~(\E i \in DOMAIN requiredPermissions.items :
                hasPermission(permissionsOf(r.user), requiredPermissions.items[i]))
           THEN Outcome(r,
                  Json(403, "Insufficient permissions. Required: "
                              \o Join(requiredPermissions.items, " | ")),
                  FALSE, <<"principal", "permission">>)
         ELSE Outcome([r EXCEPT !.checkedPermission = requiredPermissions],
                NoResponse, TRUE, <<"principal", "permission">>)
  ELSE IF ~hasPermission(permissionsOf(r.user), requiredPermissions)
    THEN Outcome(r,
           Json(403, "Permission '" \o requiredPermissions.s \o "' required"),
           FALSE, <<"principal", "permission">>)
  ELSE Outcome([r EXCEPT !.checkedPermission = requiredPermissions],
         NoResponse, TRUE, <<"principal", "permission">>)

\* the keys of a list that a permission set does not hold
missingPermissions(userPermissions, requiredPermissions) ==
  SelectSeq(requiredPermissions.items,
            LAMBDA perm : ~hasPermission(userPermissions, perm))

\* checkAllPermissions with a 403 that lists the missing keys only
checkAllPermissions_missingOnly(requiredPermissions, r) ==
  IF ~Truthy(r.user)
    THEN Outcome(r, Json(401, "Authentication required"), FALSE, <<"principal">>)
  ELSE IF ~IsArray(requiredPermissions)
    THEN Outcome(r, Json(500, "requiredPermissions.every is not a function"),
           FALSE, <<"principal", "permission">>)
  ELSE IF ~(\A i \in DOMAIN requiredPermissions.items :
              hasPermission(permissionsOf(r.user), requiredPermissions.items[i]))
    THEN Outcome(r,
           Json(403, "Insufficient permissions. Required all of: "
                       \o Join(missingPermissions(permissionsOf(r.user),
                                                  requiredPermissions), ", ")),
           FALSE, <<"principal", "permission">>)
  ELSE Outcome([r EXCEPT !.checkedPermission = requiredPermissions],
         NoResponse, TRUE, <<"principal", "permission">>)

checkAllPermissions(requiredPermissions, r) ==
  IF ~Truthy(r.user)
    THEN Outcome(r, Json(401, "Authentication required"), FALSE, <<"principal">>)
  ELSE IF ~IsArray(requiredPermissions)
    \* requiredPermissions.every is not a function: caught, line 324
    THEN Outcome(r, Json(500, "requiredPermissions.every is not a function"),
           FALSE, <<"principal", "permission">>)
  ELSE IF ~(\A i \in DOMAIN requiredPermissions.items :
              hasPermission(permissionsOf(r.user), requiredPermissions.items[i]))
    THEN Outcome(r,
           Json(403, "Insufficient permissions. Required all of: "
                       \o Join(requiredPermissions.items, ", ")),
           FALSE, <<"principal", "permission">>)
  ELSE Outcome([r EXCEPT !.checkedPermission = requiredPermissions],
         NoResponse, TRUE, <<"principal", "permission">>)

\* lines 365-373: the first truthy of body, params and query
resourceField(r, field) ==
  FirstTruthy(r.body[field], r.params[field], r.query[field])

\* checkScopePermission without the guard of line 345: reading
\* req.user.permissions of an absent user throws, and the catch answers 500
checkScopePermission_noGuard(permissionKey, options, r) ==
  IF ~Truthy(r.user)
    THEN Outcome(r, Json(500, "Cannot read properties of undefined"), FALSE,
           <<"permission">>)
  ELSE IF ~hasPermission(permissionsOf(r.user), permissionKey)
    THEN Outcome(r, Json(403, "Permission '" \o permissionKey.s \o "' required"),
           FALSE, <<"principal", "permission">>)
  ELSE IF ~checkScopeAccess(r.user, resourceField(r, options.branchField),
                            resourceField(r, options.enterpriseField))
    THEN Outcome(r, Json(403, "Access to this resource scope is not allowed"),
           FALSE, <<"principal", "permission", "scope">>)
  ELSE Outcome(
         [r EXCEPT !.checkedPermission = permissionKey,
                   !.resourceBranchId = resourceField(r, options.branchField),
                   !.resourceEnterpriseId = resourceField(r, options.enterpriseField)],
         NoResponse, TRUE, <<"principal", "permission", "scope">>)

\* checkScopePermission with lines 384-386 moved before the scope check
checkScopePermission_attachFirst(permissionKey, options, r) ==
  IF ~Truthy(r.user)
    THEN Outcome(r, Json(401, "Authentication required"), FALSE, <<"principal">>)
  ELSE IF ~hasPermission(permissionsOf(r.user), permissionKey)
    THEN Outcome(r, Json(403, "Permission '" \o permissionKey.s \o "' required"),
           FALSE, <<"principal", "permission">>)
  ELSE IF ~checkScopeAccess(r.user, resourceField(r, options.branchField),
                            resourceField(r, options.enterpriseField))
    THEN Outcome(
           [r EXCEPT !.checkedPermission = permissionKey,
                     !.resourceBranchId = resourceField(r, options.branchField),
                     !.resourceEnterpriseId = resourceField(r, options.enterpriseField)],
           Json(403, "Access to this resource scope is not allowed"),
           FALSE, <<"principal", "permission", "scope">>)
  ELSE Outcome(
         [r EXCEPT !.checkedPermission = permissionKey,
                   !.resourceBranchId = resourceField(r, options.branchField),
                   !.resourceEnterpriseId = resourceField(r, options.enterpriseField)],
         NoResponse, TRUE, <<"principal", "permission", "scope">>)

\* checkScopePermission with the two checks in the other order
checkScopePermission_scopeFirst(permissionKey, options, r) ==
  IF ~Truthy(r.user)
    THEN Outcome(r, Json(401, "Authentication required"), FALSE, <<"principal">>)
  ELSE IF ~checkScopeAccess(r.user, resourceField(r, options.branchField),
                            resourceField(r, options.enterpriseField))
    THEN Outcome(r, Json(403, "Access to this resource scope is not allowed"),
           FALSE, <<"principal", "scope">>)
  ELSE IF ~hasPermission(permissionsOf(r.user), permissionKey)
    THEN Outcome(r, Json(403, "Permission '" \o permissionKey.s \o "' required"),
           FALSE, <<"principal", "scope", "permission">>)
  ELSE Outcome(
         [r EXCEPT !.checkedPermission = permissionKey,
                   !.resourceBranchId = resourceField(r, options.branchField),
                   !.resourceEnterpriseId = resourceField(r, options.enterpriseField)],
         NoResponse, TRUE, <<"principal", "scope", "permission">>)

checkScopePermission(permissionKey, options, r) ==
  IF ~Truthy(r.user)
    THEN Outcome(r, Json(401, "Authentication required"), FALSE, <<"principal">>)
  ELSE IF ~hasPermission(permissionsOf(r.user), permissionKey)
    THEN Outcome(r, Json(403, "Permission '" \o permissionKey.s \o "' required"),
           FALSE, <<"principal", "permission">>)
  ELSE IF ~checkScopeAccess(r.user, resourceField(r, options.branchField),
                            resourceField(r, options.enterpriseField))
    THEN Outcome(r, Json(403, "Access to this resource scope is not allowed"),
           FALSE, <<"principal", "permission", "scope">>)
  ELSE Outcome(
         [r EXCEPT !.checkedPermission = permissionKey,
                   !.resourceBranchId = resourceField(r, options.branchField),
                   !.resourceEnterpriseId = resourceField(r, options.enterpriseField)],
         NoResponse, TRUE, <<"principal", "permission", "scope">>)

(***************************************************************************)
(* State: the call in progress and its completion.                         *)
(***************************************************************************)
\* concurrent calls of seedRBAC(), e.g. instances of the application
\* starting against one database
MaxSeeders == 2

Seeders == 1..MaxSeeders

\* no role mutation has been attempted
NoRoleOp == [op |-> "none", name |-> "", newName |-> "", error |-> "", before |-> << >>]

\* no user document has been looked at
NoPrincipal == [atomicRole |-> "", user |-> Null, granted |-> {}]

\* a browser that holds nothing of the application
EmptyStorage == [user |-> "none", permissions |-> "none", accessToken |-> "none"]

\* the useState defaults of AuthProvider, part_002:27-31
Mounted ==
  [user |-> "null", permissions |-> "[]", loading |-> TRUE, error |-> "",
   isAuthenticated |-> FALSE]

\* the effect of the mount has not run, nothing else is in flight
NoTasks ==
  [checkAuth |-> "start", login |-> "idle", logout |-> "idle", redirect |-> FALSE]

NoStep ==
  [step |-> "none", storage |-> EmptyStorage, isAuthenticated |-> FALSE,
   reply |-> [status |-> -1, user |-> "none", accessToken |-> "none"],
   result |-> "none"]

\* a call of seedRBAC() that has not started
NotStarted ==
  [pc |-> "idle", i |-> 0, exists |-> Null, atStart |-> << >>,
   alone |-> FALSE, afterSeed |-> FALSE]

\* the middleware a route declares: its name and configuration
Gate(m, r) ==
  CASE m.name = "checkPermission" -> checkPermission(m.requiredPermissions, r)
    [] m.name = "checkAllPermissions" -> checkAllPermissions(m.requiredPermissions, r)
    [] m.name = "checkScopePermission" -> checkScopePermission(m.permissionKey, m.options, r)

\* auditPermissionCheck, lines 446-468: res.send is replaced, the request is
\* not touched, nothing is sent, next() is called
auditPermissionCheck(r) == Outcome(r, NoResponse, TRUE, << >>)

\* the replaced res.send without the call of originalSend
auditedSend_swallow(request, response) ==
  [entry |-> [checkedPermission |-> request.checkedPermission,
              statusCode |-> response.statusCode,
              resourceBranchId |-> request.resourceBranchId,
              resourceEnterpriseId |-> request.resourceEnterpriseId],
   res |-> NoResponse]

\* the replaced res.send, lines 449-463, for a response a later middleware
\* sends: the entry it logs, and what originalSend sends
auditedSend(request, response) ==
  [entry |-> [checkedPermission |-> request.checkedPermission,
              statusCode |-> response.statusCode,
              resourceBranchId |-> request.resourceBranchId,
              resourceEnterpriseId |-> request.resourceEnterpriseId],
   res |-> response]

fnVars == <<call, ret>>

mwVars == <<mw, req, res, nextCalled, steps, audit>>

seedVars == <<Permission, AtomicRole, seeder>>

gateVars == <<call, ret, mw, req, res, nextCalled, steps, audit>>

roleVars == <<roleOp, principal>>

sessionVars == <<storage, auth, task, last>>

vars ==
  <<call, ret, mw, req, res, nextCalled, steps, audit, Permission, AtomicRole,
    seeder, roleOp, principal, storage, auth, task, last>>

NoMiddleware == [name |-> "none"]

NoAudit == [installed |-> FALSE, forwarded |-> FALSE, log |-> << >>]

NoRequest == Request(Undefined, NoFields, NoFields, NoFields)

\* the state a handler leaves behind
Handled(o) ==
  /\ req' = o.req
  /\ res' = o.res
  /\ nextCalled' = o.next
  /\ steps' = o.steps

Idle == [fn |-> "idle"]

Init ==
  /\ call = Idle
  /\ ret = NoResult
  /\ mw = NoMiddleware
  /\ req = NoRequest
  /\ res = NoResponse
  /\ nextCalled = FALSE
  /\ steps = << >>
  /\ audit = NoAudit
  /\ Permission = << >>
  /\ AtomicRole = << >>
  /\ seeder = [s \in Seeders |-> NotStarted]
  /\ roleOp = NoRoleOp
  /\ principal = NoPrincipal
  /\ storage = EmptyStorage
  /\ auth = Mounted
  /\ task = NoTasks
  /\ last = NoStep

\* nothing is being called and no request is being handled
Quiet == call.fn = "idle" /\ mw.name = "none"

CallHasPermission ==
  /\ Quiet
  /\ UNCHANGED <<mwVars, seedVars, roleVars, sessionVars>>
  /\ \E P \in PermInputs \cup {Arr(<<MixedCaseKey>>)}, k \in StrKeys \cup {MixedCaseKey} :
       /\ call' = [fn |-> "hasPermission", userPermissions |-> P,
                   requiredPermission |-> k]
       /\ ret' = Normal(hasPermission(P, k))

CallHasAnyPermission ==
  /\ Quiet
  /\ UNCHANGED <<mwVars, seedVars, roleVars, sessionVars>>
  /\ \E P \in PermInputs, ks \in KeyListInputs :
       /\ call' = [fn |-> "hasAnyPermission", userPermissions |-> P,
                   requiredPermissions |-> ks]
       /\ ret' = hasAnyPermission(P, ks)

CallHasAllPermissions ==
  /\ Quiet
  /\ UNCHANGED <<mwVars, seedVars, roleVars, sessionVars>>
  /\ \E P \in PermInputs, ks \in KeyListInputs :
       /\ call' = [fn |-> "hasAllPermissions", userPermissions |-> P,
                   requiredPermissions |-> ks]
       /\ ret' = hasAllPermissions(P, ks)

CallCheckScopeAccess ==
  /\ Quiet
  /\ UNCHANGED <<mwVars, seedVars, roleVars, sessionVars>>
  /\ \E u \in Users \cup {Null}, b \in ResourceBranchValues,
        e \in ResourceEnterpriseValues :
       /\ call' = [fn |-> "checkScopeAccess", user |-> u, resourceBranchId |-> b,
                   resourceEnterpriseId |-> e]
       /\ ret' = Normal(checkScopeAccess(u, b, e))

\* a request without target fields, of any principal or none, reaches a
\* route guarded by checkPermission(key) or checkPermission([keys])
RequestCheckPermission ==
  /\ Quiet
  /\ UNCHANGED <<fnVars, seedVars, roleVars, sessionVars>>
  /\ \E u \in GateUsers, required \in StrKeys \cup GateKeyLists :
       /\ mw' = [name |-> "checkPermission", requiredPermissions |-> required]
       /\ audit' = NoAudit
       /\ Handled(checkPermission(required, Request(u, NoFields, NoFields, NoFields)))

\* a route guarded by checkAllPermissions([keys]), or by a single key
\* passed where the array is expected
RequestCheckAllPermissions ==
  /\ Quiet
  /\ UNCHANGED <<fnVars, seedVars, roleVars, sessionVars>>
  /\ \E u \in GateUsers, required \in GateKeyLists \cup {Str("user:read")} :
       /\ mw' = [name |-> "checkAllPermissions", requiredPermissions |-> required]
       /\ audit' = NoAudit
       /\ Handled(checkAllPermissions(required, Request(u, NoFields, NoFields, NoFields)))

\* a route guarded by checkScopePermission(key), the target's scope in the
\* body, the parameters or the query
RequestCheckScopePermission ==
  /\ Quiet
  /\ UNCHANGED <<fnVars, seedVars, roleVars, sessionVars>>
  /\ \E u \in Users \cup {Undefined}, key \in StrKeys,
        body \in Bodies, params \in Params, query \in Queries :
       /\ mw' = [name |-> "checkScopePermission", permissionKey |-> key,
                 options |-> DefaultOptions]
       /\ audit' = NoAudit
       /\ Handled(checkScopePermission(key, DefaultOptions,
                                       Request(u, body, params, query)))

\* the chain auditPermissionCheck, m on request r: the hook runs first, the
\* gate gets the request the hook forwards, and what the gate sends goes
\* through the replaced res.send
Audited(m, r) ==
  LET h == auditPermissionCheck(r)
      o == IF h.next THEN Gate(m, h.req) ELSE h
      s == auditedSend(o.req, o.res)
  IN  /\ mw' = m
      /\ audit' = [installed |-> TRUE, forwarded |-> h.next,
                   log |-> IF o.res.sent THEN <<s.entry>> ELSE << >>]
      /\ Handled([o EXCEPT !.res = IF o.res.sent THEN s.res ELSE o.res])

\* a route with the audit hook in front of checkPermission or
\* checkAllPermissions
RequestAuditedPermission ==
  /\ Quiet
  /\ UNCHANGED <<fnVars, seedVars, roleVars, sessionVars>>
  /\ \E u \in GateUsers, required \in StrKeys \cup GateKeyLists,
        name \in {"checkPermission", "checkAllPermissions"} :
       Audited([name |-> name, requiredPermissions |-> required],
               Request(u, NoFields, NoFields, NoFields))

\* a route with the audit hook in front of checkScopePermission
RequestAuditedScopePermission ==
  /\ Quiet
  /\ UNCHANGED <<fnVars, seedVars, roleVars, sessionVars>>
  /\ \E u \in Users \cup {Undefined}, key \in StrKeys,
        body \in Bodies, params \in Params, query \in Queries :
       Audited([name |-> "checkScopePermission", permissionKey |-> key,
                options |-> DefaultOptions],
               Request(u, body, params, query))

\* the caller takes the result; nothing of a call outlives it
Return ==
  /\ call.fn # "idle"
  /\ call' = Idle
  /\ ret' = NoResult
  /\ UNCHANGED <<mwVars, seedVars, roleVars, sessionVars>>

\* the request is over: answered by the middleware or by the route it was
\* forwarded to
Respond ==
  /\ mw.name # "none"
  /\ mw' = NoMiddleware
  /\ req' = NoRequest
  /\ res' = NoResponse
  /\ nextCalled' = FALSE
  /\ steps' = << >>
  /\ audit' = NoAudit
  /\ UNCHANGED <<fnVars, seedVars, roleVars, sessionVars>>

Next ==
  \/ CallHasPermission
  \/ CallHasAnyPermission
  \/ CallHasAllPermissions
  \/ CallCheckScopeAccess
  \/ Return
  \/ RequestCheckPermission
  \/ RequestCheckAllPermissions
  \/ RequestCheckScopePermission
  \/ RequestAuditedPermission
  \/ RequestAuditedScopePermission
  \/ Respond

Spec == Init /\ [][Next]_vars

(***************************************************************************)
(* Seeding: rbac.seed.js against the Permission and AtomicRole collections. *)
(***************************************************************************)
\* the document Permission.create makes of an entry of PERMISSIONS: isActive
\* defaults to true
PermissionDoc(key, category) ==
  [key |-> key, category |-> category, isSystemPermission |-> FALSE,
   isActive |-> TRUE]

\* the catalog, in the order of the file: its first two entries
PERMISSIONS ==
  << PermissionDoc("user:create", "user_management"),
     PermissionDoc("user:read", "user_management") >>

\* the first and the last built-in role
BUILT_IN_ROLES ==
  << [name |-> "super_admin", category |-> "system", priority |-> 1,
      permissions |-> <<"*">>, isActive |-> TRUE, isProtected |-> TRUE],
     [name |-> "user", category |-> "system", priority |-> 100,
      permissions |-> <<"asset:read", "user:read", "report:view">>,
      isActive |-> TRUE, isProtected |-> TRUE] >>

\* Model.findOne({field: value}): the first document with the value, or null
findOne(collection, field, value) ==
  IF \E n \in DOMAIN collection : collection[n][field] = value
    THEN collection[CHOOSE n \in DOMAIN collection :
                      /\ collection[n][field] = value
                      /\ \A m \in 1..(n - 1) : collection[m][field] # value]
  ELSE Null

\* Model.create(doc) on a collection with a unique index on field: the
\* insert, or the duplicate key error of the index
create(collection, field, doc) ==
  IF \E n \in DOMAIN collection : collection[n][field] = doc[field]
    THEN [error |-> "E11000 duplicate key error", docs |-> collection]
  ELSE [error |-> "", docs |-> Append(collection, doc)]

\* the loop body with no existence test
seedOne_noCheck(collection, field, exists, doc) ==
  create(collection, field, doc)

\* the loop body with an existing document set back to the seed's values
seedOne_overwrite(collection, field, exists, doc) ==
  IF exists = Null THEN create(collection, field, doc)
  ELSE [error |-> "",
        docs |-> [n \in DOMAIN collection |->
                    IF collection[n][field] = doc[field] THEN doc
                    ELSE collection[n]]]

\* lines 337-342 and 364-369, after findOne has answered: create when
\* nothing was found, else leave the collection alone
seedOne(collection, field, exists, doc) ==
  IF exists = Null THEN create(collection, field, doc)
  ELSE [error |-> "", docs |-> collection]

\* a seeder that is between its first and its last statement
Running(s) == seeder[s].pc \notin {"idle", "done", "failed"}

\* seedRBAC() is called: seedPermissions starts with the first entry
StartSeed(s) ==
  /\ seeder[s].pc = "idle"
  /\ seeder' = [t \in Seeders |->
       IF t = s
         THEN [pc |-> "findPermission", i |-> 1, exists |-> Null,
               atStart |-> <<Permission, AtomicRole>>,
               alone |-> \A u \in Seeders \ {s} : ~Running(u),
               afterSeed |-> \E u \in Seeders : seeder[u].pc = "done"]
       ELSE IF Running(t) THEN [seeder[t] EXCEPT !.alone = FALSE]
       ELSE seeder[t]]
  /\ UNCHANGED <<gateVars, roleVars, sessionVars, Permission, AtomicRole>>

\* line 335: await Permission.findOne({ key: permission.key })
FindPermission(s) ==
  /\ seeder[s].pc = "findPermission"
  /\ seeder' = [seeder EXCEPT
       ![s].exists = findOne(Permission, "key", PERMISSIONS[seeder[s].i].key),
       ![s].pc = "seedPermission"]
  /\ UNCHANGED <<gateVars, roleVars, sessionVars, Permission, AtomicRole>>

\* lines 337-342: create the permission unless it exists; an error of create
\* is rethrown by the catch of line 347 and by that of seedRBAC, line 401
SeedPermission(s) ==
  /\ seeder[s].pc = "seedPermission"
  /\ LET r == seedOne(Permission, "key", seeder[s].exists, PERMISSIONS[seeder[s].i])
     IN  /\ Permission' = r.docs
         /\ seeder' = [seeder EXCEPT
              ![s].exists = Null,
              ![s].pc = IF r.error # "" THEN "failed"
                        ELSE IF seeder[s].i < Len(PERMISSIONS) THEN "findPermission"
                        ELSE "findRole",
              ![s].i = IF r.error # "" THEN seeder[s].i
                       ELSE IF seeder[s].i < Len(PERMISSIONS) THEN seeder[s].i + 1
                       ELSE 1]
  /\ UNCHANGED <<gateVars, roleVars, sessionVars, AtomicRole>>

\* line 362: await AtomicRole.findOne({ name: role.name })
FindRole(s) ==
  /\ seeder[s].pc = "findRole"
  /\ seeder' = [seeder EXCEPT
       ![s].exists = findOne(AtomicRole, "name", BUILT_IN_ROLES[seeder[s].i].name),
       ![s].pc = "seedRole"]
  /\ UNCHANGED <<gateVars, roleVars, sessionVars, Permission, AtomicRole>>

\* lines 364-369; after the last role seedRBAC returns true
SeedRole(s) ==
  /\ seeder[s].pc = "seedRole"
  /\ LET r == seedOne(AtomicRole, "name", seeder[s].exists, BUILT_IN_ROLES[seeder[s].i])
     IN  /\ AtomicRole' = r.docs
         /\ seeder' = [seeder EXCEPT
              ![s].exists = Null,
              ![s].pc = IF r.error # "" THEN "failed"
                        ELSE IF seeder[s].i < Len(BUILT_IN_ROLES) THEN "findRole"
                        ELSE "done",
              ![s].i = IF r.error = "" /\ seeder[s].i < Len(BUILT_IN_ROLES)
                         THEN seeder[s].i + 1
                       ELSE seeder[s].i]
  /\ UNCHANGED <<gateVars, roleVars, sessionVars, Permission>>

\* a catalog permission as an administrator deactivated it
Deactivated(doc) == [doc EXCEPT !.isActive = FALSE]

\* a built-in role with a permission list an administrator edited
Edited(role) == [role EXCEPT !.permissions = <<"user:read", "user:create">>]

\* a role that is not the seed's
CustomRole ==
  [name |-> "auditor", category |-> "custom", priority |-> 100,
   permissions |-> <<"user:read">>, isActive |-> TRUE, isProtected |-> FALSE]

\* what a collection may hold of a seed entry before seeding: nothing, the
\* seeded document, or the document after an edit
Before(doc, edited) == {<< >>, <<doc>>, <<edited>>}

PermissionCollections ==
  {p1 \o p2 :
     p1 \in Before(PERMISSIONS[1], Deactivated(PERMISSIONS[1])),
     p2 \in Before(PERMISSIONS[2], Deactivated(PERMISSIONS[2]))}

AtomicRoleCollections ==
  {c \o r1 \o r2 :
     c \in {<< >>, <<CustomRole>>},
     r1 \in Before(BUILT_IN_ROLES[1], Edited(BUILT_IN_ROLES[1])),
     r2 \in Before(BUILT_IN_ROLES[2], Edited(BUILT_IN_ROLES[2]))}

InitSeed ==
  /\ call = Idle
  /\ ret = NoResult
  /\ mw = NoMiddleware
  /\ req = NoRequest
  /\ res = NoResponse
  /\ nextCalled = FALSE
  /\ steps = << >>
  /\ audit = NoAudit
  /\ Permission \in PermissionCollections
  /\ AtomicRole \in AtomicRoleCollections
  /\ seeder = [s \in Seeders |-> NotStarted]
  /\ roleOp = NoRoleOp
  /\ principal = NoPrincipal
  /\ storage = EmptyStorage
  /\ auth = Mounted
  /\ task = NoTasks
  /\ last = NoStep

NextSeed ==
  \E s \in Seeders :
    \/ StartSeed(s)
    \/ FindPermission(s)
    \/ SeedPermission(s)
    \/ FindRole(s)
    \/ SeedRole(s)

SpecSeed == InitSeed /\ [][NextSeed]_vars

(***************************************************************************)
(* Role mutations: deletion and renaming of the documents of AtomicRole.   *)
(***************************************************************************)
\* the collection without the documents of a name
Without(collection, name) ==
  SelectSeq(collection, LAMBDA role : role.name # name)

\* deletion with no test of the protected flag
deleteRole_noGuard(collection, name) ==
  [error |-> "", docs |-> Without(collection, name)]

\* deletion of the role of a name: refused for a protected role
deleteRole(collection, name) ==
  IF findOne(collection, "name", name).isProtected
    THEN [error |-> "ProtectedRoleViolation", docs |-> collection]
  ELSE [error |-> "", docs |-> Without(collection, name)]

\* renaming of the role of a name: refused for a protected role, and for a
\* name another role has
renameRole(collection, name, newName) ==
  IF findOne(collection, "name", name).isProtected
    THEN [error |-> "ProtectedRoleViolation", docs |-> collection]
  ELSE IF newName # name /\ findOne(collection, "name", newName) # Null
    THEN [error |-> "DuplicateRoleName", docs |-> collection]
  ELSE [error |-> "",
        docs |-> [n \in DOMAIN collection |->
                    IF collection[n].name = name
                      THEN [collection[n] EXCEPT !.name = newName]
                    ELSE collection[n]]]

\* a second role of the administrators, and a custom role they protected
Clerk ==
  [name |-> "clerk", category |-> "custom", priority |-> 100,
   permissions |-> << >>, isActive |-> TRUE, isProtected |-> FALSE]

ProtectedCustomRole == [CustomRole EXCEPT !.isProtected = TRUE]

RoleNames == {"super_admin", "user", "auditor", "clerk", "intern"}

\* the names of the stored roles
StoredNames == {AtomicRole[n].name : n \in DOMAIN AtomicRole}

DeleteRole ==
  \E name \in StoredNames :
    LET r == deleteRole(AtomicRole, name)
    IN  /\ AtomicRole' = r.docs
        /\ roleOp' = [op |-> "delete", name |-> name, newName |-> "",
                      error |-> r.error, before |-> AtomicRole]
        /\ UNCHANGED <<gateVars, Permission, seeder, principal, sessionVars>>

RenameRole ==
  \E name \in StoredNames, newName \in RoleNames :
    LET r == renameRole(AtomicRole, name, newName)
    IN  /\ AtomicRole' = r.docs
        /\ roleOp' = [op |-> "rename", name |-> name, newName |-> newName,
                      error |-> r.error, before |-> AtomicRole]
        /\ UNCHANGED <<gateVars, Permission, seeder, principal, sessionVars>>

\* the seeded database, with the custom roles the administrators made
InitRoles ==
  /\ call = Idle
  /\ ret = NoResult
  /\ mw = NoMiddleware
  /\ req = NoRequest
  /\ res = NoResponse
  /\ nextCalled = FALSE
  /\ steps = << >>
  /\ audit = NoAudit
  /\ Permission = PERMISSIONS
  /\ AtomicRole \in
       {BUILT_IN_ROLES \o c1 \o c2 :
          c1 \in {<< >>, <<CustomRole>>, <<ProtectedCustomRole>>},
          c2 \in {<< >>, <<Clerk>>}}
  /\ seeder = [s \in Seeders |-> NotStarted]
  /\ roleOp = NoRoleOp
  /\ principal = NoPrincipal
  /\ storage = EmptyStorage
  /\ auth = Mounted
  /\ task = NoTasks
  /\ last = NoStep

NextRoles == DeleteRole \/ RenameRole

SpecRoles == InitRoles /\ [][NextRoles]_vars

(***************************************************************************)
(* Grants: the permission lists of the roles change, user documents carry  *)
(* the permissions that were copied from a role.                           *)
(***************************************************************************)
\* the elements of a sequence, as a set
Range(xs) == {xs[n] : n \in DOMAIN xs}

\* atomicRoleSchema.methods.hasPermission, part_006:144-150
roleHasPermission(role, permission) ==
  IF Len(role.permissions) = 0 THEN FALSE
  ELSE "*" \in Range(role.permissions) \/ permission \in Range(role.permissions)

\* const permArray = Array.isArray(permissions) ? permissions : [permissions]
permArray(permissions) ==
  IF IsArray(permissions)
    THEN [n \in DOMAIN permissions.items |-> permissions.items[n].s]
  ELSE <<permissions.s>>

RECURSIVE pushAll(_, _)
\* forEach with a push of every element
pushAll(current, perms) ==
  IF perms = << >> THEN current
  ELSE pushAll(Append(current, Head(perms)), Tail(perms))

RECURSIVE pushMissing(_, _)
\* part_006:158-162: forEach, with a push of the elements not yet included
pushMissing(current, perms) ==
  IF perms = << >> THEN current
  ELSE pushMissing(IF Head(perms) \in Range(current) THEN current
                   ELSE Append(current, Head(perms)),
                   Tail(perms))

\* addPermissions without the includes test of line 159
addPermissions_noCheck(role, permissions) ==
  [role EXCEPT !.permissions = pushAll(role.permissions, permArray(permissions))]

\* atomicRoleSchema.methods.addPermissions, part_006:156-163
addPermissions(role, permissions) ==
  [role EXCEPT !.permissions = pushMissing(role.permissions, permArray(permissions))]

\* atomicRoleSchema.methods.removePermissions, part_006:169-172
removePermissions(role, permissions) ==
  [role EXCEPT !.permissions =
     SelectSeq(role.permissions, LAMBDA perm : perm \notin Range(permArray(permissions)))]

\* a role document populated on a user, and the user as getUserPermissions
\* reads it
Populated(role) == [t |-> "object", doc |-> role]

\* getUserPermissions, permissionUtils.js:74-93
getUserPermissions(user) ==
  IF user.t = "null" THEN Arr(<< >>)
  ELSE IF Truthy(user.permissions) /\ IsArray(user.permissions) THEN user.permissions
  ELSE IF user.role.t = "object"
    THEN Arr([n \in DOMAIN user.role.doc.permissions |->
                Str(user.role.doc.permissions[n])])
  ELSE IF user.atomicRole.t = "object"
    THEN Arr([n \in DOMAIN user.atomicRole.doc.permissions |->
                Str(user.atomicRole.doc.permissions[n])])
  ELSE Arr(<< >>)

\* what addPermissions and removePermissions are called with: one key, or a
\* list of keys, also with a key twice
EditKeys == {Str("user:read"), Str("user:create")}

EditArguments ==
  EditKeys \cup {Arr(<< >>)} \cup {Arr(<<a, b>>) : a \in EditKeys, b \in EditKeys}

\* the edits of roles an administrator makes in a run
MaxEdits == 2

\* the edits made so far
Edits == IF roleOp.op = "none" THEN 0 ELSE roleOp.n

\* the collection with the document of a name replaced
Replaced(collection, name, doc) ==
  [n \in DOMAIN collection |->
     IF collection[n].name = name THEN doc ELSE collection[n]]

\* role.addPermissions(permissions), then role.save()
AddPermissions ==
  \E name \in StoredNames, permissions \in EditArguments :
    /\ Edits < MaxEdits
    /\ AtomicRole' = Replaced(AtomicRole, name,
                       addPermissions(findOne(AtomicRole, "name", name), permissions))
    /\ roleOp' = [op |-> "addPermissions", name |-> name, newName |-> "",
                  error |-> "", before |-> AtomicRole, permissions |-> permissions,
                  n |-> Edits + 1]
    /\ UNCHANGED <<gateVars, Permission, seeder, principal, sessionVars>>

\* role.removePermissions(permissions), then role.save()
RemovePermissions ==
  \E name \in StoredNames, permissions \in EditArguments :
    /\ Edits < MaxEdits
    /\ AtomicRole' = Replaced(AtomicRole, name,
                       removePermissions(findOne(AtomicRole, "name", name), permissions))
    /\ roleOp' = [op |-> "removePermissions", name |-> name, newName |-> "",
                  error |-> "", before |-> AtomicRole, permissions |-> permissions,
                  n |-> Edits + 1]
    /\ UNCHANGED <<gateVars, Permission, seeder, principal, sessionVars>>

\* login or role assignment: the permissions of the role are resolved and
\* copied onto the user document; granted records what the role granted then
AssignRole ==
  \E name \in StoredNames :
    LET role == findOne(AtomicRole, "name", name)
    IN  /\ principal' =
             [atomicRole |-> name,
              user |-> [t |-> "object",
                        permissions |->
                          getUserPermissions([t |-> "object", permissions |-> Undefined,
                                              role |-> Undefined,
                                              atomicRole |-> Populated(role)]),
                        branchId |-> Undefined, organizationId |-> Undefined],
              granted |-> {k \in Keys \cup Range(permArray(ExportKeys)) :
                             roleHasPermission(role, k)}]
        /\ UNCHANGED <<gateVars, seedVars, roleOp, sessionVars>>

\* a request of the user reaches a route guarded by checkPermission(key)
PrincipalRequest ==
  /\ principal.user # Null
  /\ \E key \in StrKeys :
       /\ mw' = [name |-> "checkPermission", requiredPermissions |-> key]
       /\ audit' = NoAudit
       /\ Handled(checkPermission(key, Request(principal.user, NoFields, NoFields, NoFields)))
  /\ UNCHANGED <<fnVars, seedVars, roleVars, sessionVars>>

\* built-in and custom roles in the collection; nobody has logged in
InitGrants ==
  /\ call = Idle
  /\ ret = NoResult
  /\ mw = NoMiddleware
  /\ req = NoRequest
  /\ res = NoResponse
  /\ nextCalled = FALSE
  /\ steps = << >>
  /\ audit = NoAudit
  /\ Permission = PERMISSIONS
  /\ AtomicRole \in {<<BUILT_IN_ROLES[1]>>, <<BUILT_IN_ROLES[2]>>, <<CustomRole>>,
                     <<Clerk>>, <<BUILT_IN_ROLES[2], CustomRole>>}
  /\ seeder = [s \in Seeders |-> NotStarted]
  /\ roleOp = NoRoleOp
  /\ principal = NoPrincipal
  /\ storage = EmptyStorage
  /\ auth = Mounted
  /\ task = NoTasks
  /\ last = NoStep

NextGrants == AddPermissions \/ RemovePermissions \/ AssignRole \/ PrincipalRequest

SpecGrants == InitGrants /\ [][NextGrants]_vars

(***************************************************************************)
(* Frontend session: AuthProvider (part_002) over the browser's storage    *)
(* and the axios instance of services/api.js.  storage holds               *)
(* localStorage.user, localStorage.permissions and                         *)
(* sessionStorage.accessToken; auth is the React state of the provider;    *)
(* task is the position of each async function, which gives the scheduler  *)
(* a turn at every await; last is the step that was taken last, with the   *)
(* storage and isAuthenticated it found.                                   *)
(***************************************************************************)
\* what getItem can return for the user: null, the JSON of an object with
\* _id, the JSON of an object without, the string "undefined", or no JSON
StoredUsers == {"none", "valid", "noId", "undefined", "corrupt"}

StoredPermissions == {"none", "valid", "corrupt"}

\* sessionStorage.setItem('accessToken', undefined) stores the string
StoredTokens == {"none", "token", "undefined"}

Storages ==
  [user : StoredUsers, permissions : StoredPermissions, accessToken : StoredTokens]

\* an HTTP exchange as axios reports it: status 0 is a request with no
\* response; user and accessToken are the fields of the body
Reply(status, user, accessToken) ==
  [status |-> status, user |-> user, accessToken |-> accessToken]

Failures == {Reply(401, "none", "none"), Reply(500, "none", "none"), Reply(0, "none", "none")}

ProfileReplies == {Reply(200, "valid", "none"), Reply(200, "noId", "none")} \cup Failures

LoginReplies ==
  {Reply(200, "valid", "token"), Reply(200, "valid", "undefined"),
   Reply(200, "noId", "token"), Reply(200, "none", "token")} \cup Failures

LogoutReplies == {Reply(200, "none", "none")} \cup Failures

AuthEndpoints == {"/auth/login", "/auth/refresh", "/auth/change-password"}

\* the three removeItem calls
Cleared(st) == [st EXCEPT !.user = "none", !.permissions = "none", !.accessToken = "none"]

\* the response interceptor of api.js: a 401 of an endpoint that is not an
\* auth endpoint clears the storage and navigates to /login; the error is
\* rejected to the caller in every case
interceptor(st, reply, url) ==
  IF reply.status = 401 /\ url \notin AuthEndpoints
    THEN [storage |-> Cleared(st), redirect |-> TRUE]
    ELSE [storage |-> st, redirect |-> FALSE]

\* checkAuth up to its await: storedUser && storedUser !== 'undefined' &&
\* storedUser !== 'null' && accessToken, then JSON.parse and the _id test
checkAuthRestore(st, a) ==
  IF st.user \in {"none", "undefined"} \/ st.accessToken = "none"
    THEN [storage |-> st, auth |-> [a EXCEPT !.loading = FALSE], next |-> "done"]
  ELSE IF st.user = "corrupt"
    THEN [storage |-> Cleared(st),
          auth |-> [a EXCEPT !.user = "null", !.permissions = "[]",
                             !.isAuthenticated = FALSE, !.loading = FALSE],
          next |-> "done"]
  ELSE IF st.user = "noId"
    THEN [storage |-> st, auth |-> [a EXCEPT !.loading = FALSE], next |-> "done"]
  ELSE [storage |-> st,
        auth |-> [a EXCEPT !.user = "minimal",
                           !.permissions =
                             IF st.permissions = "none" THEN @
                             ELSE IF st.permissions = "corrupt" THEN "[]"
                             ELSE "perms"],
        next |-> "profile"]

\* checkAuth from the settling of getProfile() to its end
checkAuthProfile(st, a, reply) ==
  LET i == interceptor(st, reply, "/auth/profile")
      ok == reply.status = 200 /\ reply.user = "valid"
  IN  [storage |-> IF ok THEN [i.storage EXCEPT !.user = "valid"] ELSE i.storage,
       auth |-> [a EXCEPT !.user = IF ok THEN "full" ELSE @,
                          !.isAuthenticated = TRUE,
                          !.loading = FALSE],
       redirect |-> i.redirect]

\* the message of login's catch: err.response?.data?.message, or err.message
\* when there is a response, or the network text when there is none, which
\* is also the case of the Error thrown for invalid user data
loginMessage(reply) ==
  IF reply.status = 401 THEN "Invalid login credentials"
  ELSE IF reply.status = 500 THEN "Request failed with status code 500"
  ELSE "Network error: cannot reach backend API."

\* login from the settling of authAPI.login() to its end
login_storeFirst(st, a, reply) ==
  LET i == interceptor(st, reply, "/auth/login")
  IN  IF reply.status = 200 /\ reply.user = "valid"
        THEN [storage |-> [user |-> "valid", permissions |-> "valid",
                           accessToken |-> reply.accessToken],
              auth |-> [a EXCEPT !.user = "full", !.permissions = "perms",
                                 !.isAuthenticated = TRUE, !.loading = FALSE],
              redirect |-> i.redirect, result |-> "success"]
      ELSE [storage |-> IF reply.status = 200
                          THEN [user |-> reply.user, permissions |-> "valid",
                                accessToken |-> reply.accessToken]
                          ELSE i.storage,
            auth |-> [a EXCEPT !.error = loginMessage(reply), !.loading = FALSE],
            redirect |-> i.redirect, result |-> "failure"]

login(st, a, reply) ==
  LET i == interceptor(st, reply, "/auth/login")
  IN  IF reply.status = 200 /\ reply.user = "valid"
        THEN [storage |-> [user |-> "valid", permissions |-> "valid",
                           accessToken |-> reply.accessToken],
              auth |-> [a EXCEPT !.user = "full", !.permissions = "perms",
                                 !.isAuthenticated = TRUE, !.loading = FALSE],
              redirect |-> i.redirect, result |-> "success"]
      ELSE [storage |-> i.storage,
            auth |-> [a EXCEPT !.error = loginMessage(reply), !.loading = FALSE],
            redirect |-> i.redirect, result |-> "failure"]

\* logout from the settling of authAPI.logout() to its end: the catch only
\* logs, the finally clears
logout_onSuccess(st, a, reply) ==
  LET i == interceptor(st, reply, "/auth/logout")
  IN  IF reply.status = 200
        THEN [storage |-> Cleared(i.storage),
              auth |-> [a EXCEPT !.user = "null", !.permissions = "[]",
                                 !.isAuthenticated = FALSE],
              redirect |-> i.redirect]
        ELSE [storage |-> i.storage, auth |-> a, redirect |-> i.redirect]

logout(st, a, reply) ==
  LET i == interceptor(st, reply, "/auth/logout")
  IN  [storage |-> Cleared(i.storage),
       auth |-> [a EXCEPT !.user = "null", !.permissions = "[]",
                          !.isAuthenticated = FALSE],
       redirect |-> i.redirect]

\* no exchange is part of the step
NoReply == Reply(-1, "none", "none")

Step(name, reply, result) ==
  [step |-> name, storage |-> storage, isAuthenticated |-> auth.isAuthenticated,
   reply |-> reply, result |-> result]

\* the effect of the mount, which runs before any handler of the page can:
\* checkAuth() runs to its await or to its end
CheckAuth ==
  /\ task.checkAuth = "start"
  /\ LET r == checkAuthRestore(storage, auth)
     IN  /\ storage' = r.storage
         /\ auth' = r.auth
         /\ task' = [task EXCEPT !.checkAuth = r.next]
  /\ last' = Step("checkAuth", NoReply, "none")
  /\ UNCHANGED <<gateVars, seedVars, roleVars>>

\* getProfile() settles and checkAuth runs to its end
ProfileSettled ==
  /\ task.checkAuth = "profile"
  /\ \E reply \in ProfileReplies :
       LET r == checkAuthProfile(storage, auth, reply)
       IN  /\ storage' = r.storage
           /\ auth' = r.auth
           /\ task' = [task EXCEPT !.checkAuth = "done",
                                   !.redirect = @ \/ r.redirect]
           /\ last' = Step("profile", reply, "none")
  /\ UNCHANGED <<gateVars, seedVars, roleVars>>

\* login() is called and runs to its await
Login ==
  /\ task.checkAuth # "start"
  /\ task.login = "idle"
  /\ auth' = [auth EXCEPT !.loading = TRUE, !.error = ""]
  /\ task' = [task EXCEPT !.login = "pending"]
  /\ last' = Step("login", NoReply, "none")
  /\ UNCHANGED <<gateVars, seedVars, roleVars, storage>>

\* authAPI.login() settles and login runs to its return
LoginSettled ==
  /\ task.login = "pending"
  /\ \E reply \in LoginReplies :
       LET r == login(storage, auth, reply)
       IN  /\ storage' = r.storage
           /\ auth' = r.auth
           /\ task' = [task EXCEPT !.login = "idle", !.redirect = @ \/ r.redirect]
           /\ last' = Step("loginSettled", reply, r.result)
  /\ UNCHANGED <<gateVars, seedVars, roleVars>>

\* logout() is called and runs to its await
Logout ==
  /\ task.checkAuth # "start"
  /\ task.logout = "idle"
  /\ task' = [task EXCEPT !.logout = "pending"]
  /\ last' = Step("logout", NoReply, "none")
  /\ UNCHANGED <<gateVars, seedVars, roleVars, storage, auth>>

\* authAPI.logout() settles and logout runs to its end
LogoutSettled ==
  /\ task.logout = "pending"
  /\ \E reply \in LogoutReplies :
       LET r == logout(storage, auth, reply)
       IN  /\ storage' = r.storage
           /\ auth' = r.auth
           /\ task' = [task EXCEPT !.logout = "idle", !.redirect = @ \/ r.redirect]
           /\ last' = Step("logoutSettled", reply, "none")
  /\ UNCHANGED <<gateVars, seedVars, roleVars>>

\* a request of a page to /users, /roles, ... is answered 401
Unauthorized ==
  /\ task.checkAuth # "start"
  /\ LET i == interceptor(storage, Reply(401, "none", "none"), "/users")
     IN  /\ storage' = i.storage
         /\ task' = [task EXCEPT !.redirect = @ \/ i.redirect]
  /\ last' = Step("unauthorized", Reply(401, "none", "none"), "none")
  /\ UNCHANGED <<gateVars, seedVars, roleVars, auth>>

\* clearError()
ClearError ==
  /\ auth.error # ""
  /\ auth' = [auth EXCEPT !.error = ""]
  /\ last' = Step("clearError", NoReply, "none")
  /\ UNCHANGED <<gateVars, seedVars, roleVars, storage, task>>

\* window.location.href = '/login' takes effect: the document is replaced,
\* the provider mounts again and the pending calls are gone
Navigate ==
  /\ task.redirect
  /\ auth' = Mounted
  /\ task' = NoTasks
  /\ last' = Step("navigate", NoReply, "none")
  /\ UNCHANGED <<gateVars, seedVars, roleVars, storage>>

\* the page loads in a browser whose storage holds anything
InitAuth ==
  /\ call = Idle
  /\ ret = NoResult
  /\ mw = NoMiddleware
  /\ req = NoRequest
  /\ res = NoResponse
  /\ nextCalled = FALSE
  /\ steps = << >>
  /\ audit = NoAudit
  /\ Permission = << >>
  /\ AtomicRole = << >>
  /\ seeder = [s \in Seeders |-> NotStarted]
  /\ roleOp = NoRoleOp
  /\ principal = NoPrincipal
  /\ storage \in Storages
  /\ auth = Mounted
  /\ task = NoTasks
  /\ last = NoStep

NextAuth ==
  \/ CheckAuth
  \/ ProfileSettled
  \/ Login
  \/ LoginSettled
  \/ Logout
  \/ LogoutSettled
  \/ Unauthorized
  \/ ClearError
  \/ Navigate

SpecAuth == InitAuth /\ [][NextAuth]_vars

\* every await settles: axios resolves or rejects each request, and a
\* navigation that was started takes place
FairAuth ==
  /\ WF_vars(CheckAuth)
  /\ WF_vars(ProfileSettled)
  /\ WF_vars(LoginSettled)
  /\ WF_vars(LogoutSettled)
  /\ WF_vars(Navigate)

SpecAuthFair == SpecAuth /\ FairAuth

(***************************************************************************)
(* Properties.                                                             *)
(***************************************************************************)
\* the elements of an array, as a set
Elements(arr) == {arr.items[i] : i \in DOMAIN arr.items}

\* a permission set in the sense of the specification: an array of keys
IsPermissionSet(P) == IsArray(P)

HoldsWildcard(P) == IsPermissionSet(P) /\ Str("*") \in Elements(P)

\* the principal's assigned branches and enterprises, as sets of id strings
assignedBranches(user) ==
  IF IsArray(user.branchId) THEN {toString(x) : x \in Elements(user.branchId)} ELSE {}

assignedEnterprises(user) ==
  IF IsArray(user.organizationId)
    THEN {toString(x) : x \in Elements(user.organizationId)}
  ELSE IF Truthy(user.organizationId) THEN {toString(user.organizationId)}
  ELSE {}

\* a scope check of a principal that is present and holds no wildcard
ScopeCallOfPlainUser ==
  /\ call.fn = "checkScopeAccess"
  /\ call.user.t = "object"
  /\ ~userHasWildcard(call.user)

\* C1: a permission set that contains "*" has every key, catalog key or not:
\* hasPermission returns true.
C1_WildcardHasEveryKey ==
  (call.fn = "hasPermission" /\ HoldsWildcard(call.userPermissions))
    => ret = Normal(TRUE)

C1_Witness ==
  /\ call.fn = "hasPermission"
  /\ HoldsWildcard(call.userPermissions)
  /\ call.requiredPermission.s \notin Catalog \cup {"*"}
  /\ ret = Normal(TRUE)

\* C2: for a permission set without "*", hasPermission(P, k) is exactly
\* "k is an element of P".
C2_ExactMatchOnly ==
  (/\ call.fn = "hasPermission"
   /\ IsPermissionSet(call.userPermissions)
   /\ ~HoldsWildcard(call.userPermissions))
    => ret = Normal(call.requiredPermission \in Elements(call.userPermissions))

\* a key of the same resource as a held key is refused
C2_Witness ==
  /\ call.fn = "hasPermission"
  /\ call.userPermissions = Arr(<<Str("user:read")>>)
  /\ call.requiredPermission = Str("user:create")
  /\ ret = Normal(FALSE)

\* C3: hasAllPermissions(P, keys) is true iff hasPermission(P, k) for every
\* k of keys, so it is true of the empty list; the AllOf gate forwards on
\* the same condition.
C3_HasAllIsEvery ==
  /\ (/\ call.fn = "hasAllPermissions"
      /\ IsPermissionSet(call.userPermissions)
      /\ IsArray(call.requiredPermissions))
       => ret = Normal(\A k \in Elements(call.requiredPermissions) :
                         hasPermission(call.userPermissions, k))
  /\ (/\ call.fn = "hasAllPermissions"
      /\ IsPermissionSet(call.userPermissions)
      /\ call.requiredPermissions = Arr(<< >>))
       => ret = Normal(TRUE)
  /\ (/\ mw.name = "checkAllPermissions"
      /\ Truthy(req.user)
      /\ IsArray(mw.requiredPermissions))
       => nextCalled = (\A k \in Elements(mw.requiredPermissions) :
                          hasPermission(permissionsOf(req.user), k))

\* one of two required keys is missing
C3_Witness ==
  /\ call.fn = "hasAllPermissions"
  /\ call.userPermissions = Arr(<<Str("user:read")>>)
  /\ call.requiredPermissions = Arr(<<Str("user:read"), Str("user:create")>>)
  /\ ret = Normal(FALSE)

\* C4: for a non-empty list keys, hasAnyPermission(P, keys) is true iff
\* hasPermission(P, k) for at least one k of keys; the AnyOf gate forwards on
\* the same condition.
C4_HasAnyIsSome ==
  /\ (/\ call.fn = "hasAnyPermission"
      /\ IsPermissionSet(call.userPermissions)
      /\ IsArray(call.requiredPermissions)
      /\ Len(call.requiredPermissions.items) > 0)
       => ret = Normal(\E k \in Elements(call.requiredPermissions) :
                         hasPermission(call.userPermissions, k))
  /\ (/\ mw.name = "checkPermission"
      /\ Truthy(req.user)
      /\ IsArray(mw.requiredPermissions)
      /\ Len(mw.requiredPermissions.items) > 0)
       => nextCalled = (\E k \in Elements(mw.requiredPermissions) :
                          hasPermission(permissionsOf(req.user), k))

\* the second of two keys is the one held
C4_Witness ==
  /\ call.fn = "hasAnyPermission"
  /\ call.userPermissions = Arr(<<Str("user:create")>>)
  /\ call.requiredPermissions = Arr(<<Str("user:read"), Str("user:create")>>)
  /\ ret = Normal(TRUE)

\* C5: hasAny(P, []) is false for every permission set P, the wildcard sets
\* included, in hasAnyPermission and in the gate checkPermission([]).
C5_HasAnyOfNothingIsFalse ==
  /\ (/\ call.fn = "hasAnyPermission"
      /\ IsPermissionSet(call.userPermissions)
      /\ call.requiredPermissions = Arr(<< >>))
       => ret = Normal(FALSE)
  /\ (/\ mw.name = "checkPermission"
      /\ Truthy(req.user)
      /\ mw.requiredPermissions = Arr(<< >>))
       => (~nextCalled /\ res.sent /\ res.statusCode = 403)

\* C6: a principal without wildcard and with assigned branches, a resource
\* with a branch, the enterprise check passing: checkScopeAccess grants iff
\* the resource's branch is one of the assigned branches.
C6_BranchMembership ==
  (/\ ScopeCallOfPlainUser
   /\ assignedBranches(call.user) # {}
   /\ Truthy(call.resourceBranchId)
   /\ enterpriseCheckPasses(call.user, call.resourceEnterpriseId))
    => ret = Normal(toString(call.resourceBranchId) \in assignedBranches(call.user))

\* assigned to b1, the resource is in b2: refused
C6_Witness ==
  /\ ScopeCallOfPlainUser
  /\ assignedBranches(call.user) = {"b1"}
  /\ call.resourceBranchId = Str("b2")
  /\ enterpriseCheckPasses(call.user, call.resourceEnterpriseId)
  /\ ret = Normal(FALSE)

\* C7: a principal without wildcard and with one or several assigned
\* enterprises, a resource with an enterprise: checkScopeAccess grants only
\* if the resource's enterprise is one of the assigned enterprises.
C7_EnterpriseMembership ==
  (/\ ScopeCallOfPlainUser
   /\ assignedEnterprises(call.user) # {}
   /\ Truthy(call.resourceEnterpriseId)
   /\ ret = Normal(TRUE))
    => toString(call.resourceEnterpriseId) \in assignedEnterprises(call.user)

\* C8: a principal with no assigned branches passes the branch check
\* against any resource branch, and one with no assigned enterprises the
\* enterprise check against any resource enterprise, without the wildcard:
\* the call is then granted whenever the other check passes.
C8_PermissiveDefault ==
  /\ (/\ ScopeCallOfPlainUser
      /\ assignedBranches(call.user) = {}
      /\ enterpriseCheckPasses(call.user, call.resourceEnterpriseId))
       => ret = Normal(TRUE)
  /\ (/\ ScopeCallOfPlainUser
      /\ assignedEnterprises(call.user) = {}
      /\ branchCheckPasses(call.user, call.resourceBranchId))
       => ret = Normal(TRUE)

\* C9: when the resource has no branch (no enterprise), the result of
\* checkScopeAccess is the same whatever branches (enterprises) the principal
\* is assigned to: that dimension is skipped.
C9_AbsentDimensionSkipped ==
  /\ (call.fn = "checkScopeAccess" /\ call.user.t = "object"
      /\ ~Truthy(call.resourceBranchId))
       => \A b \in UserBranchValues :
            ret = Normal(checkScopeAccess([call.user EXCEPT !.branchId = b],
                           call.resourceBranchId, call.resourceEnterpriseId))
  /\ (call.fn = "checkScopeAccess" /\ call.user.t = "object"
      /\ ~Truthy(call.resourceEnterpriseId))
       => \A e \in UserOrgValues :
            ret = Normal(checkScopeAccess([call.user EXCEPT !.organizationId = e],
                           call.resourceBranchId, call.resourceEnterpriseId))

\* assigned to a branch, and granted a resource that names no branch
C9_Witness ==
  /\ ScopeCallOfPlainUser
  /\ assignedBranches(call.user) # {}
  /\ ~Truthy(call.resourceBranchId)
  /\ Truthy(call.resourceEnterpriseId)
  /\ ret = Normal(TRUE)

\* C10: under every policy, a request without principal is answered 401
\* before any permission or scope evaluation, and is not forwarded.
C10_NoPrincipalIs401 ==
  (mw.name # "none" /\ ~Truthy(req.user))
    => /\ res.sent /\ res.statusCode = 401
       /\ ~nextCalled
       /\ steps = <<"principal">>
       /\ req.checkedPermission = Undefined

\* a scoped route, a target in the body, no principal
C10_Witness ==
  /\ mw.name = "checkScopePermission"
  /\ ~Truthy(req.user)
  /\ Truthy(req.body.branchId)
  /\ res.statusCode = 401
  /\ ~nextCalled

\* the reason of a denial, as the boundary reads it off the response: the
\* status code, and for a 403 the message
DenialReason(response) ==
  IF ~response.sent THEN "none"
  ELSE IF response.statusCode = 401 THEN "NotAuthenticated"
  ELSE IF response.statusCode = 403
    THEN IF response.message = "Access to this resource scope is not allowed"
           THEN "ScopeDenied"
         ELSE "InsufficientPermission"
  ELSE "Error"

\* the scoped gate's principal holds the key / reaches the target
ScopedHasKey == hasPermission(permissionsOf(req.user), mw.permissionKey)

ScopedInScope ==
  checkScopeAccess(req.user, resourceField(req, mw.options.branchField),
                   resourceField(req, mw.options.enterpriseField))

\* C11: an authenticated principal without the key of Single(key) is denied
\* with 403 InsufficientPermission, and the denial names the required key.
C11_SingleDeniedNamesKey ==
  (/\ mw.name = "checkPermission"
   /\ Truthy(req.user)
   /\ ~IsArray(mw.requiredPermissions)
   /\ ~hasPermission(permissionsOf(req.user), mw.requiredPermissions))
    => /\ res = Json(403, "Permission '" \o mw.requiredPermissions.s \o "' required")
       /\ DenialReason(res) = "InsufficientPermission"
       /\ ~nextCalled
       /\ req.checkedPermission = Undefined

\* {"user:read"} against Single("user:create")
C11_Witness ==
  /\ mw.name = "checkPermission"
  /\ Truthy(req.user)
  /\ req.user.permissions = Arr(<<Str("user:read")>>)
  /\ mw.requiredPermissions = Str("user:create")
  /\ res = Json(403, "Permission 'user:create' required")

\* C12: the scoped gate evaluates the permission first and the scope only
\* when the permission is held: without the key the denial is
\* InsufficientPermission, in or out of scope; with the key and out of scope
\* it is ScopeDenied; the request is forwarded iff both checks pass.
C12_PermissionThenScope ==
  (mw.name = "checkScopePermission" /\ Truthy(req.user))
    => /\ ~ScopedHasKey
            => /\ DenialReason(res) = "InsufficientPermission"
               /\ steps = <<"principal", "permission">>
       /\ (ScopedHasKey /\ ~ScopedInScope)
            => /\ DenialReason(res) = "ScopeDenied"
               /\ steps = <<"principal", "permission", "scope">>
       /\ nextCalled <=> (ScopedHasKey /\ ScopedInScope)
       /\ nextCalled <=> ~res.sent

\* the key is held, the target branch is not an assigned one
C12_Witness ==
  /\ mw.name = "checkScopePermission"
  /\ Truthy(req.user)
  /\ ScopedHasKey
  /\ assignedBranches(req.user) = {"b1"}
  /\ resourceField(req, "branchId") = Str("b3")
  /\ DenialReason(res) = "ScopeDenied"

\* C13: a principal whose permissions contain "*" passes the scoped gate for
\* every key and every target, whatever its assigned branches and
\* enterprises.
C13_WildcardPassesScopedGate ==
  (/\ mw.name = "checkScopePermission"
   /\ Truthy(req.user)
   /\ HoldsWildcard(req.user.permissions))
    => /\ nextCalled
       /\ ~res.sent
       /\ req.checkedPermission = mw.permissionKey

\* {"*"} with no assigned branch, against a target in a branch
C13_Witness ==
  /\ mw.name = "checkScopePermission"
  /\ Truthy(req.user)
  /\ req.user.permissions = Arr(<<Str("*")>>)
  /\ assignedBranches(req.user) = {}
  /\ resourceField(req, "branchId") = Str("b3")
  /\ mw.permissionKey = Str("user:create")
  /\ nextCalled

\* the gate's principal misses a key of the gate's key list
MissesSomeKey ==
  \E i \in DOMAIN mw.requiredPermissions.items :
    ~hasPermission(permissionsOf(req.user), mw.requiredPermissions.items[i])

\* the gate's principal holds a key of the gate's key list
HoldsSomeKey ==
  \E i \in DOMAIN mw.requiredPermissions.items :
    hasPermission(permissionsOf(req.user), mw.requiredPermissions.items[i])

AnyOfGranted ==
  (/\ mw.name = "checkPermission"
   /\ Truthy(req.user)
   /\ IsArray(mw.requiredPermissions)
   /\ HoldsSomeKey)
    => (nextCalled /\ ~res.sent)

\* C14, as stated: a principal holding one key of a list passes AnyOf of the
\* list, and is denied by AllOf of it with a required list of exactly the
\* keys it misses ({"report:export"} against ["report:export",
\* "audit:export"]: ["audit:export"]).
C14_AllOfDenialListsMissingKeys ==
  /\ AnyOfGranted
  /\ (/\ mw.name = "checkAllPermissions"
      /\ Truthy(req.user)
      /\ IsArray(mw.requiredPermissions)
      /\ MissesSomeKey)
       => /\ DenialReason(res) = "InsufficientPermission"
          /\ res.message = "Insufficient permissions. Required all of: "
                \o Join(missingPermissions(permissionsOf(req.user),
                                           mw.requiredPermissions), ", ")

\* C14, amended: a principal holding one key of a list passes AnyOf of the
\* list, and is denied by AllOf of it with InsufficientPermission and a
\* required list that is the whole key list of the policy, held keys
\* included.
C14_AllOfDenialListsPolicyKeys ==
  /\ AnyOfGranted
  /\ (/\ mw.name = "checkAllPermissions"
      /\ Truthy(req.user)
      /\ IsArray(mw.requiredPermissions)
      /\ MissesSomeKey)
       => /\ DenialReason(res) = "InsufficientPermission"
          /\ ~nextCalled
          /\ res.message = "Insufficient permissions. Required all of: "
                \o Join(mw.requiredPermissions.items, ", ")

\* {"report:export"} against AllOf(["report:export", "audit:export"])
C14_Witness ==
  /\ mw.name = "checkAllPermissions"
  /\ req.user = ReportExporter
  /\ mw.requiredPermissions = ExportKeys
  /\ res = Json(403, "Insufficient permissions. Required all of: report:export, audit:export")

\* C15: every evaluation of a gate ends in exactly one outcome: the request
\* is forwarded and nothing is sent, or a denial is sent whose reason is
\* NotAuthenticated, InsufficientPermission or ScopeDenied and the request is
\* not forwarded; no evaluation ends in any other response.
C15_OneDiscriminatedOutcome ==
  (mw.name # "none")
    => \/ (nextCalled /\ ~res.sent)
       \/ /\ ~nextCalled
          /\ res.sent
          /\ DenialReason(res) \in
               {"NotAuthenticated", "InsufficientPermission", "ScopeDenied"}

\* the request as it arrived, before a middleware attached anything
Arrived == Request(req.user, req.body, req.params, req.query)

\* C16: with the audit hook in front of a gate, the request is forwarded to
\* the gate, and the response sent, its status code, the forwarding and the
\* request are those of the gate alone on the same request.
C16_AuditHookObservesOnly ==
  audit.installed
    => /\ audit.forwarded
       /\ res = Gate(mw, Arrived).res
       /\ nextCalled = Gate(mw, Arrived).next
       /\ req = Gate(mw, Arrived).req
       /\ DenialReason(res) = DenialReason(Gate(mw, Arrived).res)

\* a denial went through the hook's res.send and was logged
C16_Witness ==
  /\ audit.installed
  /\ mw.name = "checkScopePermission"
  /\ res.statusCode = 403
  /\ Len(audit.log) = 1
  /\ audit.log[1].statusCode = 403

\* the documents of a collection that carry a value in a field
Matching(collection, field, value) ==
  {n \in DOMAIN collection : collection[n][field] = value}

\* one document for every entry of a seed list, by the entry's key field
OnePerEntry(collection, field, entries) ==
  \A e \in DOMAIN entries :
    Cardinality(Matching(collection, field, entries[e][field])) = 1

NoDuplicates(collection, field) ==
  \A n, m \in DOMAIN collection :
    collection[n][field] = collection[m][field] => n = m

\* C17: with seeders running concurrently, no seeder fails on a violation of
\* the unique index, and when all have returned each collection holds
\* exactly one document per catalog key and per built-in role name.
C17_ConcurrentSeedersAllSucceed ==
  /\ \A s \in Seeders : seeder[s].pc # "failed"
  /\ (\A s \in Seeders : seeder[s].pc = "done")
       => /\ OnePerEntry(Permission, "key", PERMISSIONS)
          /\ OnePerEntry(AtomicRole, "name", BUILT_IN_ROLES)

\* C18: a call of seedRBAC() that starts after a call has returned, with no
\* other call running beside it, returns successfully and leaves both
\* collections as it found them, with no key and no name twice.
C18_SecondSeedChangesNothing ==
  \A s \in Seeders :
    (/\ seeder[s].pc \in {"done", "failed"}
     /\ seeder[s].afterSeed
     /\ seeder[s].alone)
      => /\ seeder[s].pc = "done"
         /\ <<Permission, AtomicRole>> = seeder[s].atStart
         /\ NoDuplicates(Permission, "key")
         /\ NoDuplicates(AtomicRole, "name")
         /\ OnePerEntry(Permission, "key", PERMISSIONS)
         /\ OnePerEntry(AtomicRole, "name", BUILT_IN_ROLES)

\* the first call seeded an empty database, the second ran after it
C18_Witness ==
  \E s, t \in Seeders :
    /\ seeder[t].pc = "done"
    /\ seeder[t].atStart = << << >>, << >> >>
    /\ seeder[s].pc = "done"
    /\ seeder[s].afterSeed
    /\ seeder[s].alone
    /\ Len(seeder[s].atStart[1]) = Len(PERMISSIONS)

\* every document of before is a document of after, once
Kept(before, after, field) ==
  \A n \in DOMAIN before :
    /\ \E m \in DOMAIN after : after[m] = before[n]
    /\ Cardinality(Matching(after, field, before[n][field])) = 1

\* every document of after that is not one of before is an entry of the seed
\* list, as the seed defines it
OnlySeedAdded(before, after, field, entries) ==
  \A m \in DOMAIN after :
    \/ \E n \in DOMAIN before : before[n] = after[m]
    \/ /\ \E e \in DOMAIN entries : entries[e] = after[m]
       /\ Matching(before, field, after[m][field]) = {}

\* C19: every document that is in a collection when a seeder starts is in it
\* unchanged, in all its fields, at every later step of the seeder; what the
\* seeding adds are entries that were missing.
C19_ExistingRowsUntouched ==
  \A s \in Seeders :
    seeder[s].pc # "idle"
      => /\ Kept(seeder[s].atStart[1], Permission, "key")
         /\ Kept(seeder[s].atStart[2], AtomicRole, "name")
         /\ OnlySeedAdded(seeder[s].atStart[1], Permission, "key", PERMISSIONS)
         /\ OnlySeedAdded(seeder[s].atStart[2], AtomicRole, "name", BUILT_IN_ROLES)

\* a deactivated permission and an edited built-in role were there, another
\* permission and another role were missing and have been created
C19_Witness ==
  \E s \in Seeders :
    /\ seeder[s].pc = "done"
    /\ seeder[s].atStart = << <<Deactivated(PERMISSIONS[1])>>,
                              <<CustomRole, Edited(BUILT_IN_ROLES[2])>> >>
    /\ Permission = <<Deactivated(PERMISSIONS[1]), PERMISSIONS[2]>>
    /\ AtomicRole = <<CustomRole, Edited(BUILT_IN_ROLES[2]), BUILT_IN_ROLES[1]>>

\* the role a mutation was attempted on, as it was before the attempt
Target == findOne(roleOp.before, "name", roleOp.name)

\* C20: a delete or a rename of a role whose protected flag is true raises
\* ProtectedRoleViolation and leaves the roles as they were; a delete or a
\* rename of a role whose flag is false never raises it.
C20_ProtectedRoleViolation ==
  (roleOp.op # "none")
    => /\ Target.isProtected
            => (roleOp.error = "ProtectedRoleViolation" /\ AtomicRole = roleOp.before)
       /\ ~Target.isProtected => roleOp.error # "ProtectedRoleViolation"

\* the deletion of the built-in role super_admin was attempted
C20_Witness ==
  /\ roleOp.op = "delete"
  /\ roleOp.name = "super_admin"
  /\ roleOp.error = "ProtectedRoleViolation"
  /\ findOne(AtomicRole, "name", "super_admin") = BUILT_IN_ROLES[1]

\* C22: has(P, k) gives the same answer for keys that differ only in letter
\* case: the answer for a key is the answer for the key in lower case.
C22_KeysCaseNormalized ==
  (call.fn = "hasPermission")
    => ret.value = hasPermission(call.userPermissions,
                                 Str(toLowerCase(call.requiredPermission.s)))

\* C23: has, hasAny and hasAll return a boolean for every permission input
\* and every query, an absent key list included; they never throw.
C23_ResolverTotal ==
  (call.fn \in {"hasPermission", "hasAnyPermission", "hasAllPermissions"})
    => (ret.type = "normal" /\ ret.value \in BOOLEAN)

\* the policy of the gate holds on the permissions of the request's principal
PolicySatisfied ==
  CASE mw.name = "checkPermission" ->
         IF IsArray(mw.requiredPermissions) THEN HoldsSomeKey
         ELSE hasPermission(permissionsOf(req.user), mw.requiredPermissions)
    [] mw.name = "checkAllPermissions" ->
         IsArray(mw.requiredPermissions) /\ ~MissesSomeKey
    [] mw.name = "checkScopePermission" -> ScopedHasKey /\ ScopedInScope

\* the key or key list the gate was declared with
PolicyKeys ==
  IF mw.name = "checkScopePermission" THEN mw.permissionKey
  ELSE mw.requiredPermissions

\* C27: a request is forwarded only with a principal on it and the policy
\* satisfied, and then carries the policy as checkedPermission; when a
\* response is sent (401, 403 or 500) the request is not forwarded and
\* nothing is attached to it.
C27_GateSound ==
  (mw.name # "none")
    => /\ nextCalled
            => /\ Truthy(req.user)
               /\ PolicySatisfied
               /\ req.checkedPermission = PolicyKeys
               /\ ~res.sent
       /\ res.sent
            => /\ ~nextCalled
               /\ res.statusCode \in {401, 403, 500}
               /\ req.checkedPermission = Undefined
               /\ req.resourceBranchId = Undefined
               /\ req.resourceEnterpriseId = Undefined

\* a key holder was refused for the scope of the target
C27_Witness ==
  /\ mw.name = "checkScopePermission"
  /\ Truthy(req.user)
  /\ ScopedHasKey
  /\ ~ScopedInScope
  /\ resourceField(req, "branchId") = Str("b3")
  /\ res.statusCode = 403
  /\ ~nextCalled

\* C28: for a branch b and no enterprise, checkScopeAccess(user, b) is true
\* iff getUserAccessibleBranches(user) is ["*"] or contains b.
C28_ListingAgreesWithCheck ==
  (/\ call.fn = "checkScopeAccess"
   /\ Truthy(call.resourceBranchId)
   /\ ~Truthy(call.resourceEnterpriseId))
    => (ret.value <=>
          \/ getUserAccessibleBranches(call.user) = Arr(<<Str("*")>>)
          \/ Includes(getUserAccessibleBranches(call.user),
                      Str(toString(call.resourceBranchId))))

\* the request's principal with another permission array
WithPermissions(P) ==
  [Arrived EXCEPT !.user = [req.user EXCEPT !.permissions = P]]

\* C29: a request that is forwarded is forwarded as well when its principal
\* holds any superset of its permissions, scope assignments unchanged.
C29_GrantsMonotone ==
  (mw.name # "none" /\ nextCalled)
    => \A P \in PermArrays :
         (Elements(permissionsOf(req.user)) \subseteq Elements(P))
           => Gate(mw, WithPermissions(P)).next

\* a principal with one key passed the scoped gate on an assigned branch
C29_Witness ==
  /\ mw.name = "checkScopePermission"
  /\ nextCalled
  /\ req.user.permissions = Arr(<<Str("user:read")>>)
  /\ assignedBranches(req.user) = {"b1"}
  /\ resourceField(req, "branchId") = Str("b1")
  /\ Gate(mw, WithPermissions(Arr(<<Str("user:create"), Str("user:read")>>))).next

\* the role the user document refers to, as it is now
CurrentRole == findOne(AtomicRole, "name", principal.atomicRole)

EditedBefore == findOne(roleOp.before, "name", roleOp.name)

EditedAfter == findOne(AtomicRole, "name", roleOp.name)

NoKeyTwice(xs) == \A n, m \in DOMAIN xs : xs[n] = xs[m] => n = m

\* C24: addPermissions leaves the union of the role's keys and the given
\* ones, with no key twice, and a second application changes nothing;
\* removePermissions leaves the difference, a second application changes
\* nothing, and with no given key on the role the role is unchanged; neither
\* raises an error.
C24_EditsAreIdempotent ==
  /\ (roleOp.op = "addPermissions")
       => /\ roleOp.error = ""
          /\ Range(EditedAfter.permissions) =
               Range(EditedBefore.permissions) \cup Range(permArray(roleOp.permissions))
          /\ NoKeyTwice(EditedBefore.permissions) => NoKeyTwice(EditedAfter.permissions)
          /\ addPermissions(EditedAfter, roleOp.permissions) = EditedAfter
  /\ (roleOp.op = "removePermissions")
       => /\ roleOp.error = ""
          /\ Range(EditedAfter.permissions) =
               Range(EditedBefore.permissions) \ Range(permArray(roleOp.permissions))
          /\ removePermissions(EditedAfter, roleOp.permissions) = EditedAfter
          /\ (Range(EditedBefore.permissions) \cap Range(permArray(roleOp.permissions)) = {})
               => AtomicRole = roleOp.before

\* a key was added that the role held and one it did not, given twice
C24_Witness ==
  /\ roleOp.op = "addPermissions"
  /\ roleOp.permissions = Arr(<<Str("user:create"), Str("user:create")>>)
  /\ EditedBefore.permissions = <<"user:read">>
  /\ EditedAfter.permissions = <<"user:read", "user:create">>

\* C25: when logout() has run to its end, after a logout call that
\* succeeded or failed, the stored user, permissions and access token are
\* removed, the user in memory is null, the permissions are empty and
\* isAuthenticated is false.
C25_LogoutClearsSession ==
  (last.step = "logoutSettled")
    => /\ storage = EmptyStorage
       /\ auth.user = "null"
       /\ auth.permissions = "[]"
       /\ ~auth.isAuthenticated

\* a logged-in user logs out and the call gets no response
C25_Witness ==
  /\ last.step = "logoutSettled"
  /\ last.reply.status = 0
  /\ last.isAuthenticated
  /\ last.storage = [user |-> "valid", permissions |-> "valid", accessToken |-> "token"]
  /\ storage = EmptyStorage
  /\ ~auth.isAuthenticated

\* the login call was rejected, got no response, or carried no valid user
FailedLogin ==
  /\ last.step = "loginSettled"
  /\ ~(last.reply.status = 200 /\ last.reply.user = "valid")

\* C26: a failed login leaves the storage and isAuthenticated as they
\* were, sets the error message and returns success: false; loading is false
\* after every login, failed or not.
C26_FailedLoginChangesNothing ==
  /\ FailedLogin
       => /\ storage = last.storage
          /\ auth.isAuthenticated = last.isAuthenticated
          /\ auth.error # ""
          /\ last.result = "failure"
  /\ (last.step = "loginSettled") => ~auth.loading

\* a response with a token and no valid user, in a browser that holds a session
C26_Witness ==
  /\ FailedLogin
  /\ last.reply.status = 200
  /\ last.reply.accessToken = "token"
  /\ last.storage = [user |-> "valid", permissions |-> "valid", accessToken |-> "token"]
  /\ storage = last.storage
  /\ last.isAuthenticated
  /\ auth.error # ""

\* C30: whenever isAuthenticated is true, an access token and a user record
\* are in the browser's storage and the user in memory is not null.
C30_AuthenticatedHasSession ==
  auth.isAuthenticated
    => /\ storage.accessToken # "none"
       /\ storage.user # "none"
       /\ auth.user # "null"

\* the second half of C30: after the page has loaded, loading becomes false
LoadingEnds == <>(~auth.loading)

====
